---- MODULE Spec2Model ----
(***************************************************************************)
(* Model of PyCodeDocGen.py: extract_script_info and                       *)
(* generate_detailed_explanation.                                          *)
(*                                                                         *)
(* A source file is a sequence of physical lines.  Each line is given by   *)
(* the statement it holds (kind) and its indentation column (indent); the  *)
(* text of the line, the syntax tree ast.parse builds for the file and the *)
(* names in it are computed from that.  A text is a sequence of            *)
(* characters/tokens, " " being the only whitespace.                       *)
(*                                                                         *)
(* The tree holds the Module node and the statement nodes.  Expression,    *)
(* arguments and context nodes are left out: they match none of the        *)
(* branches of the walk and never contain a statement, so they change      *)
(* neither the effect nor the relative order of the nodes kept.            *)
(***************************************************************************)
EXTENDS Integers, Sequences, FiniteSets, TLC

\* ----------------------------------------------------------------- bounds
MaxLines == 3
MaxIndent == 2

\* ------------------------------------------------------------ input space
Kinds == {"blank", "stmt", "import", "from", "imports",
          "def", "def1", "class", "if", "bad"}

\* a line: its statement and its indentation; a blank line is empty or one space
Line == {l \in [kind : Kinds, indent : 0..MaxIndent] : l.kind = "blank" => l.indent <= 1}

\* names of the definitions, by the line they start on
NameTable == <<"a", "b", "c", "d", "e", "g", "h", "k">>
NameAt(i) == NameTable[i]

\* collaborator outcomes
Contents == {<<" ", "It", " ", "works.", " ">>}
Errors == {"timeout"}

\* ------------------------------------------------------------------ texts
Spaces(n) == [i \in 1..n |-> " "]

KindText(kind, i) ==
    CASE kind = "blank"   -> <<>>
      [] kind = "stmt"    -> <<"x", " ", "=", " ", "1">>
      [] kind = "import"  -> <<"import", " ", "os">>
      [] kind = "from"    -> <<"from", " ", "m", " ", "import", " ", "y">>
      [] kind = "imports" -> <<"import", " ", "os;", " ", "import", " ", "sys,", " ", "re">>
      [] kind = "def"     -> <<"def", " ", NameAt(i), "(p):">>
      [] kind = "def1"    -> <<"def", " ", NameAt(i), "(p):", " ", "pass">>
      [] kind = "class"   -> <<"class", " ", NameAt(i), ":">>
      [] kind = "if"      -> <<"if", " ", "x", ":">>
      [] kind = "bad"     -> <<"def", " ", "f(:">>

\* script_content.split('\n'): the text of every physical line
SplitLines(f) == [i \in 1..Len(f) |-> Spaces(f[i].indent) \o KindText(f[i].kind, i)]

RECURSIVE LStrip(_)
LStrip(s) == IF s # <<>> /\ Head(s) = " " THEN LStrip(Tail(s)) ELSE s

RECURSIVE RStrip(_)
RStrip(s) == IF s # <<>> /\ s[Len(s)] = " " THEN RStrip(SubSeq(s, 1, Len(s) - 1)) ELSE s

\* str.strip()
Strip(s) == RStrip(LStrip(s))

\* ''.join(seq of texts)
RECURSIVE Join(_)
Join(ss) == IF ss = <<>> THEN <<>> ELSE Head(ss) \o Join(Tail(ss))

\* ----------------------------------------------------------------- parser
SetMax(S) == CHOOSE x \in S : \A y \in S : y <= x

NonBlank(f) == {i \in 1..Len(f) : f[i].kind # "blank"}
Opener(f, i) == f[i].kind \in {"def", "class", "if"}

\* the logical line before line i (0: none)
PrevLine(f, i) == SetMax({0} \cup {j \in NonBlank(f) : j < i})

\* the line of the compound statement whose block holds line i (0: the module)
Parent(f, i) == SetMax({0} \cup {j \in NonBlank(f) : j < i /\ f[j].indent < f[i].indent})

RECURSIVE Chain(_, _)
Chain(f, i) == IF i = 0 THEN {} ELSE {i} \cup Chain(f, Parent(f, i))

\* no line of f breaks the rules of the tokenizer: every token is well formed,
\* the first statement is not indented, a block is indented deeper than the
\* line that opens it, and a dedent returns to the column of an enclosing block
WellIndented(f) ==
    /\ \A i \in 1..Len(f) : f[i].kind # "bad"
    /\ \A i \in NonBlank(f) :
          LET p == PrevLine(f, i)
          IN  IF p = 0 THEN f[i].indent = 0
              ELSE IF Opener(f, p) THEN f[i].indent > f[p].indent
              ELSE \E a \in Chain(f, p) : f[a].indent = f[i].indent

\* ast.parse succeeds: f is well indented and its last block is not empty
Parses(f) ==
    /\ WellIndented(f)
    /\ NonBlank(f) # {} => ~Opener(f, SetMax(NonBlank(f)))

\* the files of n lines whose first syntax error, if any, is on the last line
RECURSIVE FilesOfLen(_)
FilesOfLen(n) ==
    IF n = 1 THEN {<<l>> : l \in Line}
    ELSE {Append(f, l) : f \in {g \in FilesOfLen(n - 1) : WellIndented(g)}, l \in Line}

\* node.end_lineno of the statement that starts on line i
EndLine(f, i) ==
    IF ~Opener(f, i) THEN i
    ELSE SetMax({j \in NonBlank(f) :
                    /\ j >= i
                    /\ \A k \in NonBlank(f) : (i < k /\ k <= j) => f[k].indent > f[i].indent})

\* the statement nodes of line i, in source order; a node is <<lineno, position>>
LineNodes(f, i) ==
    IF f[i].kind = "blank" THEN <<>>
    ELSE IF f[i].kind = "imports" THEN << <<i, 1>>, <<i, 2>> >>
    ELSE << <<i, 1>> >>

Root == <<0, 0>>

RECURSIVE BlockNodes(_, _, _)
\* the nodes of the lines from..Len(f) whose block is the one opened on line p
BlockNodes(f, p, from) ==
    IF from > Len(f) THEN <<>>
    ELSE (IF Parent(f, from) = p THEN LineNodes(f, from) ELSE <<>>)
            \o BlockNodes(f, p, from + 1)

NodeIds(f) ==
    {Root} \cup {<<i, 1>> : i \in NonBlank(f)}
           \cup {<<i, 2>> : i \in {j \in 1..Len(f) : f[j].kind \in {"imports", "def1"}}}

NodeType(f, n) ==
    IF n = Root THEN "Module"
    ELSE LET kind == f[n[1]].kind
         IN  CASE kind \in {"import", "imports"} -> "Import"
               [] kind = "from" -> "ImportFrom"
               [] kind = "def" -> "FunctionDef"
               [] kind = "def1" -> IF n[2] = 1 THEN "FunctionDef" ELSE "Pass"
               [] kind = "class" -> "ClassDef"
               [] kind = "if" -> "If"
               [] OTHER -> "Assign"

NodeBody(f, n) ==
    IF n = Root THEN BlockNodes(f, 0, 1)
    ELSE IF n[2] = 1 /\ Opener(f, n[1]) THEN BlockNodes(f, n[1], n[1] + 1)
    ELSE IF n[2] = 1 /\ f[n[1]].kind = "def1" THEN << <<n[1], 2>> >>
    ELSE <<>>

\* ast.parse: the tree, as a function from nodes to their attributes
Parse(f) ==
    [n \in NodeIds(f) |->
        [type       |-> NodeType(f, n),
         lineno     |-> n[1],
         end_lineno |-> IF n = Root THEN 0 ELSE EndLine(f, n[1]),
         name       |-> IF NodeType(f, n) \in {"FunctionDef", "ClassDef"} THEN NameAt(n[1]) ELSE "",
         names      |-> IF NodeType(f, n) # "Import" THEN <<>>
                        ELSE IF f[n[1]].kind = "imports" /\ n[2] = 2 THEN <<"sys", "re">>
                        ELSE <<"os">>,
         module     |-> IF NodeType(f, n) = "ImportFrom" THEN "m" ELSE "",
         args       |-> IF NodeType(f, n) = "FunctionDef" THEN <<"p">> ELSE <<>>,
         body       |-> NodeBody(f, n)]]

\* ------------------------------------------------------------------ state
VARIABLES
    readable,          \* whether open(file_path) succeeds
    file,              \* the content of the file at file_path
    pc,                \* position in extract_script_info
    tree,              \* ast.parse's result
    lines,             \* script_content.split('\n')
    code_lines,        \* set of unclaimed line indices (0-based)
    todo,              \* the deque of ast.walk
    node,              \* the loop variable of the walk
    imports, functions, classes, other_code,
    other_code_lines,  \* the loose texts still to explain
    code_snippet,      \* argument of the explanation call in progress
    explanation,       \* its return value
    requests,          \* the requests sent to the collaborator, in order
    outcomes,          \* for each request, "ok" or the error it raised
    visited,           \* history: the nodes the walk yielded, in order
    claims,            \* history: <<node, index>> for every discard call
    loose_at           \* history: the line indices that line 114 kept, in order

vars == <<readable, file, pc, tree, lines, code_lines, todo, node, imports,
          functions, classes, other_code, other_code_lines, code_snippet,
          explanation, requests, outcomes, visited, claims, loose_at>>

NoTree == [n \in {} |-> 0]

Init ==
    /\ \/ readable = TRUE /\ \E n \in 1..MaxLines : file \in FilesOfLen(n)
       \/ readable = FALSE /\ file = <<>>
    /\ pc = "start"
    /\ tree = NoTree
    /\ lines = <<>>
    /\ code_lines = {}
    /\ todo = <<>>
    /\ node = Root
    /\ imports = <<>>
    /\ functions = <<>>
    /\ classes = <<>>
    /\ other_code = <<>>
    /\ other_code_lines = <<>>
    /\ code_snippet = <<>>
    /\ explanation = <<>>
    /\ requests = <<>>
    /\ outcomes = <<>>
    /\ visited = <<>>
    /\ claims = <<>>
    /\ loose_at = <<>>

\* variant of ParseFail: the exception is not caught and leaves the function
ParseFail_raises ==
    /\ pc = "start"
    /\ ~readable \/ ~Parses(file)
    /\ pc' = "raised"
    /\ UNCHANGED <<readable, file, tree, lines, code_lines, todo, node, imports,
                   functions, classes, other_code, other_code_lines, code_snippet,
                   explanation, requests, outcomes, visited, claims, loose_at>>

\* lines 64-70: open or ast.parse raises; four empty lists are returned
ParseFail ==
    /\ pc = "start"
    /\ ~readable \/ ~Parses(file)
    /\ pc' = "done"
    /\ UNCHANGED <<readable, file, tree, lines, code_lines, todo, node, imports,
                   functions, classes, other_code, other_code_lines, code_snippet,
                   explanation, requests, outcomes, visited, claims, loose_at>>

\* lines 64-82: the file parses; the lists, the line set and the walk are set up
ParseOk ==
    /\ pc = "start"
    /\ readable /\ Parses(file)
    /\ tree' = Parse(file)
    /\ lines' = SplitLines(file)
    /\ code_lines' = 0..(Len(file) - 1)
    /\ todo' = <<Root>>
    /\ pc' = "walk"
    /\ UNCHANGED <<readable, file, node, imports, functions, classes, other_code,
                   other_code_lines, code_snippet, explanation, requests, outcomes,
                   visited, claims, loose_at>>

\* lines 91 and 102: ''.join(lines[node.lineno-1:node.end_lineno])
NodeCode(n) == Join(SubSeq(lines, tree[n].lineno, tree[n].end_lineno))

\* variant of Discard: the index is left in the set
Discard_keeps(S, x) == S

\* set.discard
Discard(S, x) == S \ {x}

\* variant of ClaimIndex: the node's last line is claimed instead of its first
ClaimIndex_end(n) == tree[n].end_lineno - 1

\* lines 85, 88, 99, 111: the index a node claims, node.lineno - 1
ClaimIndex(n) == tree[n].lineno - 1

\* variant of WalkNext: the children are put in front, a depth-first walk
WalkNext_dfs(n) ==
    /\ pc = "walk"
    /\ todo # <<>>
    /\ n = Head(todo)
    /\ todo' = tree[n].body \o Tail(todo)
    /\ node' = n
    /\ visited' = Append(visited, n)

\* line 82, ast.walk: take the head of the deque, append its children
WalkNext(n) ==
    /\ pc = "walk"
    /\ todo # <<>>
    /\ n = Head(todo)
    /\ todo' = Tail(todo) \o tree[n].body
    /\ node' = n
    /\ visited' = Append(visited, n)

\* variant of VisitImport: only the first name of the statement is recorded
VisitImport_first ==
    \E n \in DOMAIN tree :
        /\ WalkNext(n)
        /\ tree[n].type = "Import"
        /\ imports' = Append(imports, tree[n].names[1])
        /\ code_lines' = Discard(code_lines, ClaimIndex(n))
        /\ claims' = Append(claims, <<n, ClaimIndex(n)>>)
        /\ UNCHANGED <<readable, file, pc, tree, lines, functions, classes, other_code,
                       other_code_lines, code_snippet, explanation, requests, outcomes, loose_at>>

\* lines 83-85
VisitImport ==
    \E n \in DOMAIN tree :
        /\ WalkNext(n)
        /\ tree[n].type = "Import"
        /\ imports' = imports \o tree[n].names
        /\ code_lines' = Discard(code_lines, ClaimIndex(n))
        /\ claims' = Append(claims, <<n, ClaimIndex(n)>>)
        /\ UNCHANGED <<readable, file, pc, tree, lines, functions, classes, other_code,
                       other_code_lines, code_snippet, explanation, requests, outcomes, loose_at>>

\* lines 86-88
VisitImportFrom ==
    \E n \in DOMAIN tree :
        /\ WalkNext(n)
        /\ tree[n].type = "ImportFrom"
        /\ imports' = Append(imports, tree[n].module)
        /\ code_lines' = Discard(code_lines, ClaimIndex(n))
        /\ claims' = Append(claims, <<n, ClaimIndex(n)>>)
        /\ UNCHANGED <<readable, file, pc, tree, lines, functions, classes, other_code,
                       other_code_lines, code_snippet, explanation, requests, outcomes, loose_at>>

\* a node that matches no branch of lines 83-111
VisitOther ==
    \E n \in DOMAIN tree :
        /\ WalkNext(n)
        /\ tree[n].type \notin {"Import", "ImportFrom", "FunctionDef", "ClassDef"}
        /\ UNCHANGED <<readable, file, pc, tree, lines, code_lines, imports, functions,
                       classes, other_code, other_code_lines, code_snippet, explanation,
                       requests, outcomes, claims, loose_at>>

\* line 47
MaxTokens == 500

\* lines 39-40: the system message
SystemMessage ==
    [role    |-> "system",
     content |-> <<"You are an expert Python code explainer. Provide a detailed, line-by-line explanation of the code snippet, breaking down its purpose, functionality, and any important nuances.">>]

\* lines 43-44: the user message, the instruction followed by the code
UserMessage(code) ==
    [role    |-> "user",
     content |-> <<"Please provide a comprehensive, line-by-line explanation of this code:", "\n", "\n">> \o code]

\* lines 35-48: the request of client.chat.completions.create
Request(code) ==
    [model      |-> "gpt-3.5-turbo",
     messages   |-> <<SystemMessage, UserMessage(code)>>,
     max_tokens |-> MaxTokens]

\* variant of SendRequest: the request is sent twice
SendRequest_twice(code, at) ==
    /\ code_snippet' = code
    /\ requests' = requests \o <<Request(code), Request(code)>>
    /\ pc' = at

\* lines 24, 35: generate_detailed_explanation is entered and the request is sent
SendRequest(code, at) ==
    /\ code_snippet' = code
    /\ requests' = Append(requests, Request(code))
    /\ pc' = at

\* lines 89-96: the function's code is sliced and its explanation requested
VisitFunctionDef ==
    \E n \in DOMAIN tree :
        /\ WalkNext(n)
        /\ tree[n].type = "FunctionDef"
        /\ SendRequest(NodeCode(n), "call_func")
        /\ UNCHANGED <<readable, file, tree, lines, code_lines, imports, functions, classes,
                       other_code, other_code_lines, explanation, outcomes, claims, loose_at>>

\* lines 100-108: the class's code is sliced and its explanation requested
VisitClassDef ==
    \E n \in DOMAIN tree :
        /\ WalkNext(n)
        /\ tree[n].type = "ClassDef"
        /\ SendRequest(NodeCode(n), "call_class")
        /\ UNCHANGED <<readable, file, tree, lines, code_lines, imports, functions, classes,
                       other_code, other_code_lines, explanation, outcomes, claims, loose_at>>

Calling == pc \in {"call_func", "call_class", "call_loose"}

\* lines 92-99: the function's segment is appended and its first line claimed
AppendFunction(expl) ==
    /\ functions' = Append(functions, [name        |-> tree[node].name,
                                       params      |-> tree[node].args,
                                       code        |-> code_snippet,
                                       explanation |-> expl])
    /\ code_lines' = Discard(code_lines, ClaimIndex(node))
    /\ claims' = Append(claims, <<node, ClaimIndex(node)>>)
    /\ pc' = "walk"
    /\ UNCHANGED <<classes, other_code>>

\* variant of MethodNames: the names are collected last to first
RECURSIVE MethodNames_reversed(_)
MethodNames_reversed(body) ==
    IF body = <<>> THEN <<>>
    ELSE MethodNames_reversed(Tail(body))
            \o (IF tree[Head(body)].type = "FunctionDef" THEN <<tree[Head(body)].name>> ELSE <<>>)

\* line 103: the names of the function definitions directly in the class body
RECURSIVE MethodNames(_)
MethodNames(body) ==
    IF body = <<>> THEN <<>>
    ELSE (IF tree[Head(body)].type = "FunctionDef" THEN <<tree[Head(body)].name>> ELSE <<>>)
            \o MethodNames(Tail(body))

\* lines 103-111: the class's segment is appended and its first line claimed
AppendClass(expl) ==
    /\ classes' = Append(classes, [name        |-> tree[node].name,
                                   methods     |-> MethodNames(tree[node].body),
                                   code        |-> code_snippet,
                                   explanation |-> expl])
    /\ code_lines' = Discard(code_lines, ClaimIndex(node))
    /\ claims' = Append(claims, <<node, ClaimIndex(node)>>)
    /\ pc' = "walk"
    /\ UNCHANGED <<functions, other_code>>

\* lines 116-119: the loose segment is appended
AppendLoose(expl) ==
    /\ other_code' = Append(other_code, [code |-> code_snippet, explanation |-> expl])
    /\ pc' = "loose"
    /\ UNCHANGED <<functions, classes, code_lines, claims>>

\* the call returns expl to line 96, 108 or 118, which stores it in the segment
ReturnTo(expl) ==
    CASE pc = "call_func" -> AppendFunction(expl)
      [] pc = "call_class" -> AppendClass(expl)
      [] pc = "call_loose" -> AppendLoose(expl)

\* variant of Placeholder: the exception's text is left out
Placeholder_generic(e) == <<"Unable to generate explanation.">>

\* line 52: the placeholder built from the exception
Placeholder(e) == <<"Unable to generate explanation. Error: ", e>>

\* lines 35-49: the collaborator answers; the stripped content is returned
ExplainOk ==
    /\ Calling
    /\ \E content \in Contents :
          /\ explanation' = Strip(content)
          /\ ReturnTo(Strip(content))
    /\ outcomes' = Append(outcomes, "ok")
    /\ UNCHANGED <<readable, file, tree, lines, todo, node, imports, other_code_lines,
                   code_snippet, requests, visited, loose_at>>

\* lines 50-52: the request raises; the placeholder is returned
ExplainFail ==
    /\ Calling
    /\ \E e \in Errors :
          /\ explanation' = Placeholder(e)
          /\ ReturnTo(Placeholder(e))
          /\ outcomes' = Append(outcomes, e)
    /\ UNCHANGED <<readable, file, tree, lines, todo, node, imports, other_code_lines,
                   code_snippet, requests, visited, loose_at>>

\* variant of SetToSeq: the indices come in descending order
RECURSIVE SetToSeq_desc(_)
SetToSeq_desc(S) ==
    IF S = {} THEN <<>>
    ELSE LET m == CHOOSE x \in S : \A y \in S : y <= x
         IN  <<m>> \o SetToSeq_desc(S \ {m})

\* iteration over the set of line indices: CPython keeps a set of small
\* non-negative integers built from a range in ascending order
RECURSIVE SetToSeq(_)
SetToSeq(S) ==
    IF S = {} THEN <<>>
    ELSE LET m == CHOOSE x \in S : \A y \in S : x <= y
         IN  <<m>> \o SetToSeq(S \ {m})

\* line 114: the indices, in iteration order, whose stripped line is not empty
RECURSIVE LooseIndices(_)
LooseIndices(idx) ==
    IF idx = <<>> THEN <<>>
    ELSE (IF Strip(lines[Head(idx) + 1]) # <<>> THEN <<Head(idx)>> ELSE <<>>)
            \o LooseIndices(Tail(idx))

\* line 114: the stripped texts of those lines
LooseTexts(idx) == [k \in 1..Len(LooseIndices(idx)) |-> Strip(lines[LooseIndices(idx)[k] + 1])]

\* variant of CollectLoose: the loose lines are collected before the walk ends
CollectLoose_early ==
    /\ pc = "walk"
    /\ other_code_lines' = LooseTexts(SetToSeq(code_lines))
    /\ loose_at' = LooseIndices(SetToSeq(code_lines))
    /\ pc' = "loose"
    /\ UNCHANGED <<readable, file, tree, lines, code_lines, todo, node, imports, functions,
                   classes, other_code, code_snippet, explanation, requests, outcomes,
                   visited, claims>>

\* line 114, reached when the walk is exhausted
CollectLoose ==
    /\ pc = "walk"
    /\ todo = <<>>
    /\ other_code_lines' = LooseTexts(SetToSeq(code_lines))
    /\ loose_at' = LooseIndices(SetToSeq(code_lines))
    /\ pc' = "loose"
    /\ UNCHANGED <<readable, file, tree, lines, code_lines, todo, node, imports, functions,
                   classes, other_code, code_snippet, explanation, requests, outcomes,
                   visited, claims>>

\* lines 115-118: the next loose line's explanation is requested
ExplainLoose ==
    /\ pc = "loose"
    /\ other_code_lines # <<>>
    /\ SendRequest(Head(other_code_lines), "call_loose")
    /\ other_code_lines' = Tail(other_code_lines)
    /\ UNCHANGED <<readable, file, tree, lines, code_lines, todo, node, imports, functions,
                   classes, other_code, explanation, outcomes, visited, claims, loose_at>>

\* line 121
Return ==
    /\ pc = "loose"
    /\ other_code_lines = <<>>
    /\ pc' = "done"
    /\ UNCHANGED <<readable, file, tree, lines, code_lines, todo, node, imports, functions,
                   classes, other_code, other_code_lines, code_snippet, explanation,
                   requests, outcomes, visited, claims, loose_at>>

Next ==
    \/ ParseFail
    \/ ParseOk
    \/ VisitImport
    \/ VisitImportFrom
    \/ VisitFunctionDef
    \/ VisitClassDef
    \/ VisitOther
    \/ ExplainOk
    \/ ExplainFail
    \/ CollectLoose
    \/ ExplainLoose
    \/ Return

Spec == Init /\ [][Next]_vars

\* ------------------------------------------------------------- properties
Parsed == readable /\ Parses(file)
Finished == pc = "done" /\ Parsed

Universe == 0..(Len(file) - 1)
ClaimedIdx == {claims[k][2] : k \in DOMAIN claims}
LooseIdx == {loose_at[k] : k \in DOMAIN loose_at}
IsBlankText(s) == \A i \in DOMAIN s : s[i] = " "
BlankIdx == {i \in Universe : IsBlankText(lines[i + 1])}
IsSegmentNode(n) == tree[n].type \in {"FunctionDef", "ClassDef"}

\* C1: when extract_script_info returns for a file that parses, the claimed
\* indices, the loose indices and the blank indices are pairwise disjoint and
\* together are all the line indices; the claimed indices are the ones removed
\* from the line set; every loose index gives one loose segment; and every
\* non-blank line after the first of a multi-line function or class that no
\* segment claims is kept as a loose line exactly once.
C1_LinePartition ==
    Finished =>
        /\ ClaimedIdx \cup LooseIdx \cup BlankIdx = Universe
        /\ ClaimedIdx \cap LooseIdx = {}
        /\ ClaimedIdx \cap BlankIdx = {}
        /\ LooseIdx \cap BlankIdx = {}
        /\ ClaimedIdx = Universe \ code_lines
        /\ Len(loose_at) = Cardinality(LooseIdx)
        /\ Len(other_code) = Len(loose_at)
        /\ \A n \in DOMAIN tree :
              IsSegmentNode(n) =>
                \A i \in tree[n].lineno..(tree[n].end_lineno - 1) :
                    (i \notin BlankIdx /\ i \notin ClaimedIdx) =>
                        Cardinality({k \in DOMAIN loose_at : loose_at[k] = i}) = 1

\* a finished run over a multi-line definition whose last line ends up loose,
\* with a blank line in the file
C1_Witness ==
    /\ Finished
    /\ BlankIdx # {}
    /\ \E n \in DOMAIN tree :
          /\ IsSegmentNode(n)
          /\ tree[n].end_lineno > tree[n].lineno
          /\ tree[n].end_lineno - 1 \in LooseIdx
          /\ tree[n].lineno - 1 \in ClaimedIdx

\* C2 as stated: no line index is claimed by more than one segment
C2_NoSharedClaim ==
    \A j, k \in DOMAIN claims : j # k => claims[j][2] # claims[k][2]

\* C2, amended: two segments claim the same index exactly when their nodes
\* start on the same physical line; no node claims twice; a claimed index is
\* out of the line set.
C2_SharedClaimOnlyOnSameLine ==
    /\ \A j, k \in DOMAIN claims :
          j # k =>
            /\ claims[j][1] # claims[k][1]
            /\ (claims[j][2] = claims[k][2])
                  <=> (tree[claims[j][1]].lineno = tree[claims[k][1]].lineno)
    /\ ClaimedIdx \cap code_lines = {}

\* two statements of one line have both claimed it, and a definition on
\* another line has claimed its own
C2_Witness ==
    /\ \E j, k \in DOMAIN claims : j # k /\ claims[j][2] = claims[k][2]
    /\ \E j, k \in DOMAIN claims :
          /\ claims[j][2] # claims[k][2]
          /\ IsSegmentNode(claims[j][1])
          /\ tree[claims[j][1]].end_lineno > claims[k][2]

\* C3: when the file cannot be read or parsed, nothing is raised and the run
\* returns with the four collections empty, having created no segment, claimed
\* no line and sent no request (the histories of the whole run are empty).
C3_ParseFailureIsEmpty ==
    /\ pc # "raised"
    /\ (pc = "done" /\ ~Parsed) =>
          /\ imports = <<>> /\ functions = <<>> /\ classes = <<>> /\ other_code = <<>>
          /\ requests = <<>>
          /\ visited = <<>>
          /\ claims = <<>>

\* the run over an unparseable file that also holds a definition has returned
C3_Witness ==
    /\ pc = "done"
    /\ readable
    /\ ~Parses(file)
    /\ \E i, j \in DOMAIN file : file[i].kind = "bad" /\ file[j].kind \in {"def1", "import"}

\* ---- helpers of the remaining properties
FuncVisited == SelectSeq(visited, LAMBDA n : tree[n].type = "FunctionDef")
ClassVisited == SelectSeq(visited, LAMBDA n : tree[n].type = "ClassDef")
SegVisited == SelectSeq(visited, LAMBDA n : IsSegmentNode(n))
ImportVisited == SelectSeq(visited, LAMBDA n : tree[n].type \in {"Import", "ImportFrom"})

NodesOfType(T) == {n \in DOMAIN tree : tree[n].type \in T}
Rank(i, S) == Cardinality({j \in S : j <= i})
CountType(seq, t) == Cardinality({k \in DOMAIN seq : tree[seq[k]].type = t})

\* the text of the lines first..last of the file, one after the other
RECURSIVE FileText(_, _)
FileText(first, last) ==
    IF first > last THEN <<>>
    ELSE Spaces(file[first].indent) \o KindText(file[first].kind, first) \o FileText(first + 1, last)

\* t is s without its leading and trailing spaces, and is not empty
IsTrimOf(t, s) ==
    /\ t # <<>>
    /\ t[1] # " "
    /\ t[Len(t)] # " "
    /\ \E a \in 0..Len(s) :
          /\ a + Len(t) <= Len(s)
          /\ SubSeq(s, a + 1, a + Len(t)) = t
          /\ \A i \in 1..Len(s) : (i <= a \/ i > a + Len(t)) => s[i] = " "

\* the segment the r-th request was made for
SegmentOfRequest(r) ==
    IF r > Len(SegVisited) THEN other_code[r - Len(SegVisited)]
    ELSE IF tree[SegVisited[r]].type = "FunctionDef"
         THEN functions[CountType(SubSeq(SegVisited, 1, r), "FunctionDef")]
         ELSE classes[CountType(SubSeq(SegVisited, 1, r), "ClassDef")]

\* the segments a run produces, whatever the collaborator does: one function
\* per function definition, one class per class definition, one loose segment
\* per non-blank line on which no import or definition starts
SegmentsOfFile ==
    /\ Len(functions) = Cardinality(NodesOfType({"FunctionDef"}))
    /\ Len(classes) = Cardinality(NodesOfType({"ClassDef"}))
    /\ \A k \in DOMAIN functions :
          /\ functions[k].name = NameAt(FuncVisited[k][1])
          /\ functions[k].code = FileText(FuncVisited[k][1], EndLine(file, FuncVisited[k][1]))
    /\ \A k \in DOMAIN classes :
          /\ classes[k].name = NameAt(ClassVisited[k][1])
          /\ classes[k].code = FileText(ClassVisited[k][1], EndLine(file, ClassVisited[k][1]))
    /\ LooseIdx = {i \in Universe :
                     /\ file[i + 1].kind # "blank"
                     /\ \A n \in NodesOfType({"Import", "ImportFrom", "FunctionDef", "ClassDef"}) :
                           n[1] # i + 1}
    /\ Len(other_code) = Cardinality(LooseIdx)
    /\ \A k \in DOMAIN other_code : IsTrimOf(other_code[k].code, FileText(loose_at[k] + 1, loose_at[k] + 1))

\* C4: whatever requests fail, nothing is raised, the run produces the
\* segments of the file (the same as when no request fails), a segment whose
\* request failed carries a non-empty placeholder that contains the failure's
\* description, and every other segment carries the collaborator's answer.
C4_FailuresStayLocal ==
    /\ pc # "raised"
    /\ Finished =>
        /\ SegmentsOfFile
        /\ Len(outcomes) = Len(functions) + Len(classes) + Len(other_code)
        /\ \A r \in DOMAIN outcomes :
              LET expl == SegmentOfRequest(r).explanation
              IN  IF outcomes[r] = "ok"
                  THEN \E c \in Contents : IsTrimOf(expl, c)
                  ELSE /\ expl # <<>>
                       /\ \E i \in DOMAIN expl : expl[i] = outcomes[r]
                       /\ \A c \in Contents : ~IsTrimOf(expl, c)

\* a finished run in which the first and third requests failed and the second
\* did not, with a function and loose lines
C4_Witness ==
    /\ Finished
    /\ Len(outcomes) >= 3
    /\ outcomes[1] # "ok" /\ outcomes[2] = "ok" /\ outcomes[3] # "ok"
    /\ functions # <<>>
    /\ other_code # <<>>

\* the code text a request carries: its user message without the instruction
CodeOfRequest(r) == SubSeq(requests[r].messages[2].content, 4, Len(requests[r].messages[2].content))

\* C5: one request per function, class and loose segment, with that segment's
\* code, none for an import and none repeated after a failure.
C5_OneRequestPerSegment ==
    /\ Len(requests) \in {Len(outcomes), Len(outcomes) + 1}
    /\ Len(requests) = Len(outcomes) + 1 <=> Calling
    /\ Finished =>
        /\ Len(requests) = Len(functions) + Len(classes) + Len(other_code)
        /\ Len(requests) = Cardinality(NodesOfType({"FunctionDef", "ClassDef"}))
                              + Cardinality(LooseIdx)
        /\ \A r \in DOMAIN requests :
              /\ CodeOfRequest(r) = SegmentOfRequest(r).code
              /\ requests[r].messages[1] = SystemMessage
              /\ requests[r].max_tokens = MaxTokens

\* a finished run over a file with an import, a function and a loose line in
\* which a request failed
C5_Witness ==
    /\ Finished
    /\ imports # <<>>
    /\ functions # <<>>
    /\ other_code # <<>>
    /\ \E r \in DOMAIN outcomes : outcomes[r] # "ok"

\* the entries one import node gives
EntriesOf(n) == IF tree[n].type = "Import" THEN tree[n].names ELSE <<tree[n].module>>

RECURSIVE SumEntries(_)
SumEntries(S) ==
    IF S = {} THEN 0
    ELSE LET n == CHOOSE x \in S : TRUE
         IN  Len(EntriesOf(n)) + SumEntries(S \ {n})

RECURSIVE JoinEntries(_)
JoinEntries(ns) == IF ns = <<>> THEN <<>> ELSE EntriesOf(Head(ns)) \o JoinEntries(Tail(ns))

IsImport(n) == tree[n].type \in {"Import", "ImportFrom"}
TopLevelImports == SelectSeq(tree[Root].body, IsImport)

\* C6 as stated: a file with k top-level import statements gives k entries
C6_OneEntryPerTopLevelImport ==
    Finished => Len(imports) = Len(TopLevelImports)

\* C6, amended: the imports hold one entry per name of every import statement
\* and one per from-import, for the import statements anywhere in the tree; when
\* all of them are top-level and give one entry each, these are the k entries
\* of the k top-level import statements, in source order.
C6_EntriesOfAllImports ==
    Finished =>
        /\ Len(imports) = SumEntries(NodesOfType({"Import", "ImportFrom"}))
        /\ \A n \in NodesOfType({"Import", "ImportFrom"}) :
              \A i \in DOMAIN EntriesOf(n) : \E j \in DOMAIN imports : imports[j] = EntriesOf(n)[i]
        /\ (\A n \in NodesOfType({"Import", "ImportFrom"}) :
                /\ Len(EntriesOf(n)) = 1
                /\ \E k \in DOMAIN TopLevelImports : TopLevelImports[k] = n)
              => /\ Len(imports) = Len(TopLevelImports)
                 /\ \A k \in DOMAIN imports : imports[k] = EntriesOf(TopLevelImports[k])[1]

\* a finished run over a file with a two-name import and a nested import
C6_Witness ==
    /\ Finished
    /\ \E n \in NodesOfType({"Import"}) : Len(tree[n].names) = 2
    /\ \E n \in NodesOfType({"Import", "ImportFrom"}) :
          \A k \in DOMAIN TopLevelImports : TopLevelImports[k] # n

\* the line a definition's name belongs to
LineOfName(nm) == CHOOSE i \in DOMAIN NameTable : NameTable[i] = nm
\* the number of statements around line i, itself included
Depth(i) == Cardinality(Chain(file, i))

InSourceOrder(segs) ==
    \A j, k \in DOMAIN segs : j < k => LineOfName(segs[j].name) < LineOfName(segs[k].name)

\* C7 as stated: the functions and the classes are in the order of their lines
C7_SourceOrder ==
    Finished => InSourceOrder(functions) /\ InSourceOrder(classes)

Before(m, n) ==
    \/ Depth(m[1]) < Depth(n[1])
    \/ Depth(m[1]) = Depth(n[1]) /\ m[1] < n[1]
    \/ m[1] = n[1] /\ m[2] < n[2]

InWalkOrder(segs) ==
    \A j, k \in DOMAIN segs :
        j < k => Before(<<LineOfName(segs[j].name), 1>>, <<LineOfName(segs[k].name), 1>>)

\* C7, amended: in each collection the segments are in the order of the walk,
\* which is breadth-first: nearer the root first, and in source order among
\* the nodes of one depth.
C7_BreadthFirstOrder ==
    Finished =>
        /\ InWalkOrder(functions)
        /\ InWalkOrder(classes)
        /\ \A j, k \in DOMAIN ImportVisited : j < k => Before(ImportVisited[j], ImportVisited[k])
        /\ imports = JoinEntries(ImportVisited)

\* a finished run in which a method precedes a top-level function in the file
\* and follows it in the functions
C7_Witness ==
    /\ Finished
    /\ \E j, k \in DOMAIN functions :
          /\ j < k
          /\ LineOfName(functions[j].name) > LineOfName(functions[k].name)

\* the lines of the function definitions directly in the block of line c
MethodLines(c) ==
    {i \in NonBlank(file) : Parent(file, i) = c /\ file[i].kind \in {"def", "def1"}}

\* C8: every class definition gives a class segment whose methods are the
\* names of the function definitions directly in its body, in the order of
\* their lines, and each of these also gives a function segment.
C8_ClassMethods ==
    Finished =>
        /\ Len(classes) = Cardinality({i \in NonBlank(file) : file[i].kind = "class"})
        /\ \A k \in DOMAIN classes :
              LET c == LineOfName(classes[k].name)
              IN  /\ file[c].kind = "class"
                  /\ Len(classes[k].methods) = Cardinality(MethodLines(c))
                  /\ \A i \in MethodLines(c) :
                        /\ classes[k].methods[Rank(i, MethodLines(c))] = NameAt(i)
                        /\ Cardinality({j \in DOMAIN functions :
                                          /\ functions[j].name = NameAt(i)
                                          /\ functions[j].code = FileText(i, EndLine(file, i))}) = 1

\* a finished run over a class with two methods
C8_Witness ==
    /\ Finished
    /\ \E k \in DOMAIN classes :
          /\ Len(classes[k].methods) = 2
          /\ \E i, j \in DOMAIN functions :
                /\ functions[i].name = classes[k].methods[1]
                /\ functions[j].name = classes[k].methods[2]

\* C9: the loose segments are the trimmed texts of the indices left in the
\* line set whose trimmed text is not empty, in ascending order of the index.
C9_LooseLines ==
    Finished =>
        LET S == {i \in code_lines : ~IsBlankText(lines[i + 1])}
        IN  /\ Len(other_code) = Cardinality(S)
            /\ \A i \in S : IsTrimOf(other_code[Rank(i, S)].code, lines[i + 1])

\* a finished run with two loose lines, one of them indented, and a blank
\* line left in the line set
C9_Witness ==
    /\ Finished
    /\ Len(other_code) >= 2
    /\ \E i \in code_lines : IsBlankText(lines[i + 1])
    /\ \E k \in DOMAIN other_code : other_code[k].code # lines[loose_at[k] + 1]
    /\ other_code[1].code # other_code[2].code

AfterWalk == pc \in {"loose", "call_loose", "done"}

\* C10 as stated: no request is sent before the walk is over
C10_NoRequestBeforeWalkEnds ==
    requests # <<>> => AfterWalk

\* C10, amended: the request of a function or class is sent during the walk,
\* when its node is visited and before its segment is appended; the requests
\* of the loose lines are sent only when the walk has created every import,
\* function and class segment and made its last removal.
C10_LooseRequestsAfterWalk ==
    /\ ((AfterWalk \/ Len(requests) > Len(SegVisited)) /\ Parsed) =>
          /\ AfterWalk
          /\ todo = <<>>
          /\ {visited[k] : k \in DOMAIN visited} = DOMAIN tree
          /\ Len(functions) = Cardinality(NodesOfType({"FunctionDef"}))
          /\ Len(classes) = Cardinality(NodesOfType({"ClassDef"}))
          /\ Len(imports) = SumEntries(NodesOfType({"Import", "ImportFrom"}))
          /\ code_lines = Universe \
                {n[1] - 1 : n \in NodesOfType({"Import", "ImportFrom", "FunctionDef", "ClassDef"})}
    /\ pc \in {"call_func", "call_class"} =>
          /\ Len(requests) = Len(functions) + Len(classes) + 1
          /\ Len(SegVisited) = Len(requests)
    /\ pc = "walk" => Len(requests) = Len(functions) + Len(classes)

\* the request of a loose line is in progress after those of two definitions
C10_Witness ==
    /\ pc = "call_loose"
    /\ Len(functions) + Len(classes) >= 2
    /\ Len(requests) = Len(functions) + Len(classes) + 1
====
